---- MODULE Spec2Model ----
(***************************************************************************)
(* Model of selenium.webdriver.chrome.service.Service                      *)
(* (py/selenium/webdriver/chrome/service.py).                              *)
(*                                                                         *)
(* One Service instance: its attributes, the operating-system processes    *)
(* it has spawned, and, for the call made last, its inputs (what the       *)
(* environment answered), its outcome and the externally visible steps it  *)
(* took.  Every method is one action that runs the whole method.           *)
(***************************************************************************)
EXTENDS Integers, Sequences, FiniteSets, TLC

VARIABLES
    path,            \* self.path: [dir, base], the string is dir \o base
    port,            \* self.port
    service_args,    \* self.service_args: a reference, "caller" or "fresh"
    heap,            \* the list objects: [caller |-> <<..>>, fresh |-> <<..>>]
    env,             \* self.env: [isNone, vars]
    process,         \* self.process: [kind, pid], kind "unset" | "None" | "Popen"
    procs,           \* every process spawned so far, by pid (1..Len(procs))
    given,           \* the constructor's arguments, as the caller passed them
    other,           \* a second instance made from the caller's list, if any
    free_port_calls, \* number of calls of utils.free_port() so far
    lifecycle,       \* history: "Unstarted" | "Running" | "StartFailed" | "Stopped"
    op,              \* the method called last ("__init__" after construction)
    inp,             \* what the environment answered during the last call
    result,          \* how the last call ended: [kind, exc, value]
    events           \* the steps the last call took, in order: [ev, arg]

vars == <<path, port, service_args, heap, env, process, procs, given, other,
          free_port_calls, lifecycle, op, inp, result, events>>

-----------------------------------------------------------------------------
(* Bounds of the model.                                                    *)

\* Processes one instance may spawn in a run.
MaxSpawns == 2
\* The environment makes the port connectable at probe k of start's poll,
\* k in 1..MaxFirstSuccess, or never (k = 0).
MaxFirstSuccess == 31
\* The environment makes the port dark at check d of stop's poll,
\* d in 1..MaxDarkAt, or never (d = 0).
MaxDarkAt == 31

-----------------------------------------------------------------------------
(* Program constants.                                                      *)

\* start: "if count == 30: raise"
StartCeiling == 30
\* stop: "if count == 30: break"
StopCeiling == 30

-----------------------------------------------------------------------------
(* Values.                                                                 *)

\* The value a method returns when it returns nothing.
PyNone == "None"

Return(v) == [kind |-> "return", exc |-> "", value |-> v]
Raise(e, msg) == [kind |-> "raise", exc |-> e, value |-> msg]

Ev(name, arg) == [ev |-> name, arg |-> arg]

NoInput == [spawn |-> "", k |-> 0, shutdown |-> "", d |-> 0, fault |-> ""]

RECURSIVE Count(_, _)
Count(s, x) ==
    IF s = <<>> THEN 0
    ELSE (IF Head(s) = x THEN 1 ELSE 0) + Count(Tail(s), x)

\* Number of events named name among evs.
RECURSIVE CountEv(_, _)
CountEv(evs, name) ==
    IF evs = <<>> THEN 0
    ELSE (IF Head(evs).ev = name THEN 1 ELSE 0) + CountEv(Tail(evs), name)

-----------------------------------------------------------------------------
(* String formatting.                                                      *)

Digit(d) ==
    CASE d = 0 -> "0" [] d = 1 -> "1" [] d = 2 -> "2" [] d = 3 -> "3"
      [] d = 4 -> "4" [] d = 5 -> "5" [] d = 6 -> "6" [] d = 7 -> "7"
      [] d = 8 -> "8" [] d = 9 -> "9"

\* "%d" % n, for n >= 0
RECURSIVE FormatInt(_)
FormatInt(n) ==
    IF n < 10 THEN Digit(n) ELSE FormatInt(n \div 10) \o Digit(n % 10)

\* os.path.basename(self.path)
Basename(p) == p.base

PathStr(p) == p.dir \o p.base

\* "--port=%d" % self.port
PortFlag(n) == "--port=" \o FormatInt(n)

\* '--log-path=%s' % log_path
LogFlag(lp) == "--log-path=" \o lp

-----------------------------------------------------------------------------
(* Python truth values of the optional constructor arguments.              *)

\* bool(x) for x a string or None
TruthyStr(x) == ~x.isNone /\ x.str # ""
\* bool(x) for x a list or None
TruthyList(x) == ~x.isNone /\ x.items # <<>>
\* bool(x) for x a mapping or None
TruthyMap(x) == ~x.isNone /\ x.vars # {}

-----------------------------------------------------------------------------
(* The constructor's arguments.                                            *)

Paths ==
    { [dir |-> "", base |-> "chromedriver"],
      [dir |-> "/opt/bin/", base |-> "cd"] }

PortInputs == {0, 9515}

\* What utils.free_port() may return.
FreePorts == {49152, 50007}

ArgInputs ==
    { [isNone |-> TRUE, items |-> <<>>],
      [isNone |-> FALSE, items |-> <<>>],
      [isNone |-> FALSE, items |-> <<"--verbose">>] }

LogPathInputs ==
    { [isNone |-> TRUE, str |-> ""],
      [isNone |-> FALSE, str |-> ""],
      [isNone |-> FALSE, str |-> "/tmp/cd.log"] }

EnvInputs ==
    { [isNone |-> TRUE, vars |-> {}],
      [isNone |-> FALSE, vars |-> {}],
      [isNone |-> FALSE, vars |-> {<<"DISPLAY", ":1">>}] }

\* os.environ
OsEnviron == {<<"PATH", "/usr/bin">>}

-----------------------------------------------------------------------------
(* Service.__init__                                                        *)

\* self.service_args = service_args or []: the caller's list object when it
\* is a non-empty list, a new list otherwise.
InitArgsRef(sa) == IF TruthyList(sa) THEN "caller" ELSE "fresh"

\* Faulty variant of InitHeap: the flag is added to a copy that is dropped
\* (self.service_args + [...] in place of append).
InitHeap_Dropped(sa, lp) == [caller |-> sa.items, fresh |-> <<>>]

\* if log_path: self.service_args.append('--log-path=%s' % log_path)
InitHeap(sa, lp) ==
    LET h0 == [caller |-> sa.items, fresh |-> <<>>]
        ref == InitArgsRef(sa)
    IN  IF TruthyStr(lp)
        THEN [h0 EXCEPT ![ref] = Append(@, LogFlag(lp.str))]
        ELSE h0

\* Faulty variant of InitPort: the port is resolved whatever was given.
InitPort_Always(p, fp) == [port |-> fp, calls |-> 1]

\* self.port = port
\* if self.port == 0: self.port = utils.free_port()
\* (fp is what free_port returns if it is called)
InitPort(p, fp) ==
    IF p = 0 THEN [port |-> fp, calls |-> 1] ELSE [port |-> p, calls |-> 0]

\* No second instance yet.
NoOther ==
    [constructed |-> FALSE, service_args |-> "fresh", fresh |-> <<>>,
     log_path |-> [isNone |-> TRUE, str |-> ""]]

Init ==
    \E ep \in Paths, p \in PortInputs, fp \in FreePorts,
       sa \in ArgInputs, lp \in LogPathInputs, e \in EnvInputs :
        /\ given = [executable_path |-> ep, port |-> p, service_args |-> sa,
                    log_path |-> lp, env |-> e]
        /\ port = InitPort(p, fp).port
        /\ path = ep
        /\ service_args = InitArgsRef(sa)
        /\ heap = InitHeap(sa, lp)
        /\ free_port_calls = InitPort(p, fp).calls
        /\ lifecycle = "Unstarted"
        /\ other = NoOther
        /\ env = e
        /\ process = [kind |-> "unset", pid |-> 0]
        /\ procs = <<>>
        /\ op = "__init__"
        /\ inp = NoInput
        /\ result = Return(PyNone)
        /\ events = [i \in 1..InitPort(p, fp).calls |-> Ev("free_port", "")]

\* The list self.service_args refers to.
ServiceArgs == heap[service_args]

-----------------------------------------------------------------------------
(* Service.start                                                           *)

SpawnOutcomes == {"ok", "ENOENT", "EACCES", "ENOMEM"}

DocsMsg ==
    "Please see https://sites.google.com/a/chromium.org/chromedriver/home"

\* env = self.env or os.environ
SpawnEnv(e) == IF TruthyMap(e) THEN e.vars ELSE OsEnviron

\* [self.path, "--port=%d" % self.port] + self.service_args
SpawnArgv(p, n, args) == <<PathStr(p), PortFlag(n)>> \o args

\* Faulty variant of SpawnFailure: the final "else: raise" is missing, every
\* errno but ENOENT is reported as a permission problem.
SpawnFailure_Wrap(errno, p) ==
    IF errno = "ENOENT"
    THEN Raise("WebDriverException",
               "'" \o Basename(p) \o "' executable needs to be in PATH. "
                   \o DocsMsg)
    ELSE Raise("WebDriverException",
               "'" \o Basename(p) \o "' executable may have wrong permissions. "
                   \o DocsMsg)

\* except OSError as err: ...
SpawnFailure(errno, p) ==
    CASE errno = "ENOENT" ->
            Raise("WebDriverException",
                  "'" \o Basename(p) \o "' executable needs to be in PATH. "
                      \o DocsMsg)
      [] errno = "EACCES" ->
            Raise("WebDriverException",
                  "'" \o Basename(p) \o "' executable may have wrong permissions. "
                      \o DocsMsg)
      [] OTHER -> Raise("OSError", errno)

\* utils.is_connectable(self.port) at probe i of start's poll, when the
\* environment opens the port at probe k (never, when k = 0).
StartProbe(k, i) == k # 0 /\ i >= k

\* Faulty variant of StartLoop: the ceiling is tested before the count is
\* raised, as stop's loop does, which allows one more probe.
RECURSIVE StartLoop_OffByOne(_, _, _)
StartLoop_OffByOne(k, count, evs) ==
    LET probed == Append(evs, Ev("is_connectable", ""))
    IN  IF StartProbe(k, count + 1)
        THEN [events |-> probed, raised |-> FALSE]
        ELSE IF count = StartCeiling
             THEN [events |-> probed, raised |-> TRUE]
             ELSE StartLoop_OffByOne(k, count + 1,
                                     Append(probed, Ev("sleep", "")))

\* Faulty variant of StartLoop: the poll sleeps before it probes, and gives
\* up once the count reaches the ceiling without a last probe.
RECURSIVE StartLoop_SleepFirst(_, _, _)
StartLoop_SleepFirst(k, count, evs) ==
    IF count + 1 = StartCeiling
    THEN [events |-> Append(evs, Ev("sleep", "")), raised |-> TRUE]
    ELSE LET probed == Append(Append(evs, Ev("sleep", "")),
                              Ev("is_connectable", ""))
         IN  IF StartProbe(k, count + 1)
             THEN [events |-> probed, raised |-> FALSE]
             ELSE StartLoop_SleepFirst(k, count + 1, probed)

\* Faulty variant of StartLoop: the process is killed and waited for before
\* the poll gives up.
RECURSIVE StartLoop_KillOnGiveUp(_, _, _)
StartLoop_KillOnGiveUp(k, count, evs) ==
    LET probed == Append(evs, Ev("is_connectable", ""))
    IN  IF StartProbe(k, count + 1)
        THEN [events |-> probed, raised |-> FALSE]
        ELSE LET slept == Append(probed, Ev("sleep", ""))
             IN  IF count + 1 = StartCeiling
                 THEN [events |-> slept \o <<Ev("kill", ""), Ev("wait", "")>>,
                       raised |-> TRUE]
                 ELSE StartLoop_KillOnGiveUp(k, count + 1, slept)

\* count = 0
\* while not utils.is_connectable(self.port):
\*     count += 1; time.sleep(1)
\*     if count == 30: raise
RECURSIVE StartLoop(_, _, _)
StartLoop(k, count, evs) ==
    LET probed == Append(evs, Ev("is_connectable", ""))
    IN  IF StartProbe(k, count + 1)
        THEN [events |-> probed, raised |-> FALSE]
        ELSE LET slept == Append(probed, Ev("sleep", ""))
             IN  IF count + 1 = StartCeiling
                 THEN [events |-> slept, raised |-> TRUE]
                 ELSE StartLoop(k, count + 1, slept)

Unreachable(p) ==
    Raise("WebDriverException", "Can not connect to the '" \o Basename(p) \o "'")

\* The process subprocess.Popen(argv, env=e, stdout=PIPE, stderr=PIPE) returns.
NewProc(argv, e) ==
    [alive |-> TRUE, reaped |-> FALSE, stdout_open |-> TRUE,
     stderr_open |-> TRUE, argv |-> argv, env |-> e]

Start(spawn, k) ==
    /\ spawn = "ok" => Len(procs) < MaxSpawns
    /\ spawn # "ok" => k = 0
    /\ op' = "start"
    /\ inp' = [NoInput EXCEPT !.spawn = spawn, !.k = k]
    /\ IF spawn # "ok"
       THEN /\ result' = SpawnFailure(spawn, path)
            /\ events' = <<Ev("Popen", spawn)>>
            /\ UNCHANGED <<process, procs, lifecycle>>
       ELSE LET poll == StartLoop(k, 0, <<>>)
            IN  /\ procs' = Append(procs,
                       NewProc(SpawnArgv(path, port, ServiceArgs),
                               SpawnEnv(env)))
                /\ process' = [kind |-> "Popen", pid |-> Len(procs) + 1]
                /\ events' = <<Ev("Popen", "")>> \o poll.events
                /\ result' = IF poll.raised THEN Unreachable(path)
                                            ELSE Return(PyNone)
                /\ lifecycle' = IF poll.raised THEN "StartFailed"
                                               ELSE "Running"
    /\ UNCHANGED <<path, port, service_args, heap, env, given, other,
                   free_port_calls>>

-----------------------------------------------------------------------------
(* Service.service_url                                                     *)

\* Faulty variant of ServiceUrlValue: the address stop uses.
ServiceUrlValue_Ip(n) == "http://127.0.0.1:" \o FormatInt(n)

\* "http://localhost:%d" % self.port
ServiceUrlValue(n) == "http://localhost:" \o FormatInt(n)

ServiceUrl ==
    /\ op' = "service_url"
    /\ inp' = NoInput
    /\ result' = Return(ServiceUrlValue(port))
    /\ events' = <<>>
    /\ UNCHANGED <<path, port, service_args, heap, env, process, procs, given,
                   other, free_port_calls, lifecycle>>

-----------------------------------------------------------------------------
(* Service.stop                                                            *)

\* How urlopen ends: normally, or by raising the error named.
ShutdownOutcomes == {"ok", "URLError", "HTTPError"}

\* Faulty variant of CleanupSteps: the process is killed and waited for
\* before its streams are closed.
CleanupSteps_KillFirst == <<"kill", "wait", "close_stdout", "close_stderr">>

CleanupSteps == <<"close_stdout", "close_stderr", "kill", "wait">>

\* The cleanup step that raises OSError, if one does.
Faults == {"none", "close_stdout", "close_stderr", "kill", "wait"}

\* "http://127.0.0.1:%d/shutdown" % self.port
ShutdownUrl(n) == "http://127.0.0.1:" \o FormatInt(n) \o "/shutdown"

\* Faulty variant of ShutdownFailure: the error is caught and reported as
\* a WebDriverException.
ShutdownFailure_Wrapped(err, n) ==
    Raise("WebDriverException", ShutdownUrl(n))

\* url_request.urlopen(...) raising err: nothing in stop catches it.
ShutdownFailure(err, n) == Raise(err, ShutdownUrl(n))

\* utils.is_connectable(self.port) at check i of stop's poll, when the
\* environment closes the port at check d (never, when d = 0).
StopProbe(d, i) == d = 0 \/ i < d

\* Faulty variant of StopLoop: the count is raised before the ceiling is
\* tested, as start's loop does, which ends the poll one check earlier.
RECURSIVE StopLoop_CountFirst(_, _, _)
StopLoop_CountFirst(d, count, evs) ==
    LET probed == Append(evs, Ev("is_connectable", ""))
    IN  IF ~StopProbe(d, count + 1) THEN probed
        ELSE IF count + 1 = StopCeiling
             THEN Append(probed, Ev("sleep", ""))
             ELSE StopLoop_CountFirst(d, count + 1,
                                      Append(probed, Ev("sleep", "")))

\* count = 0
\* while utils.is_connectable(self.port):
\*     if count == 30: break
\*     count += 1; time.sleep(1)
RECURSIVE StopLoop(_, _, _)
StopLoop(d, count, evs) ==
    LET probed == Append(evs, Ev("is_connectable", ""))
    IN  IF ~StopProbe(d, count + 1) THEN probed
        ELSE IF count = StopCeiling THEN probed
        ELSE StopLoop(d, count + 1, Append(probed, Ev("sleep", "")))

\* What a cleanup step that does not raise does to the process.
StepEffect(step, p) ==
    CASE step = "close_stdout" -> [p EXCEPT !.stdout_open = FALSE]
      [] step = "close_stderr" -> [p EXCEPT !.stderr_open = FALSE]
      [] step = "kill" -> [p EXCEPT !.alive = FALSE]
      [] step = "wait" -> [p EXCEPT !.alive = FALSE, !.reaped = TRUE]

\* try: stdout.close(); stderr.close(); kill(); wait()
\* except OSError: pass
RECURSIVE Cleanup(_, _, _, _)
Cleanup(i, p, evs, fault) ==
    IF i > Len(CleanupSteps) THEN [proc |-> p, events |-> evs]
    ELSE LET step == CleanupSteps[i]
         IN  IF fault = step
             THEN [proc |-> p, events |-> Append(evs, Ev(step, "OSError"))]
             ELSE Cleanup(i + 1, StepEffect(step, p),
                          Append(evs, Ev(step, "")), fault)

Stop(shutdown, d, fault) ==
    /\ process.kind # "Popen" => shutdown = "ok" /\ d = 0 /\ fault = "none"
    /\ shutdown # "ok" => d = 0 /\ fault = "none"
    /\ op' = "stop"
    /\ IF process.kind = "unset"
       THEN \* self.process was never assigned
            /\ inp' = NoInput
            /\ result' = Raise("AttributeError",
                               "'Service' object has no attribute 'process'")
            /\ events' = <<>>
            /\ UNCHANGED <<procs, lifecycle>>
       ELSE IF process.kind = "None"
       THEN /\ inp' = NoInput
            /\ result' = Return(PyNone)
            /\ events' = <<>>
            /\ UNCHANGED <<procs, lifecycle>>
       ELSE IF shutdown # "ok"
       THEN /\ inp' = [NoInput EXCEPT !.shutdown = shutdown]
            /\ result' = ShutdownFailure(shutdown, port)
            /\ events' = <<Ev("urlopen", ShutdownUrl(port))>>
            /\ UNCHANGED <<procs, lifecycle>>
       ELSE LET polled == StopLoop(d, 0, <<Ev("urlopen", ShutdownUrl(port))>>)
                done == Cleanup(1, procs[process.pid], polled, fault)
            IN  /\ inp' = [NoInput EXCEPT !.shutdown = shutdown, !.d = d,
                                          !.fault = fault]
                /\ result' = Return(PyNone)
                /\ events' = done.events
                /\ procs' = [procs EXCEPT ![process.pid] = done.proc]
                /\ lifecycle' = IF lifecycle = "Running" THEN "Stopped"
                                                         ELSE lifecycle
    /\ UNCHANGED <<path, port, service_args, heap, env, process, given, other,
                   free_port_calls>>

-----------------------------------------------------------------------------

(* The lifecycle: every spawn outcome and every cleanup fault, the polls  *)
(* answered at once, late or never, for the constructor configurations    *)
(* that differ in path and port.                                          *)

InitDefaults ==
    /\ Init
    /\ given.service_args.isNone /\ given.log_path.isNone /\ given.env.isNone

StartInputs ==
    ((SpawnOutcomes \ {"ok"}) \X {0}) \cup ({"ok"} \X {0, 1, 2})

StopInputs ==
    ((ShutdownOutcomes \ {"ok"}) \X {0} \X {"none"})
        \cup ({"ok"} \X {0, 1, 2} \X Faults)

Next ==
    \/ \E i \in StartInputs : Start(i[1], i[2])
    \/ ServiceUrl
    \/ \E i \in StopInputs : Stop(i[1], i[2], i[3])

Spec == InitDefaults /\ [][Next]_vars

-----------------------------------------------------------------------------
(* The polls: every moment at which the port may open or go dark.         *)

InitPoll == InitDefaults /\ given.port # 0

NextPoll ==
    \/ \E k \in 0..MaxFirstSuccess : Start("ok", k)
    \/ ServiceUrl
    \/ \E shutdown \in ShutdownOutcomes, d \in 0..MaxDarkAt :
           Stop(shutdown, d, "none")

SpecPoll == InitPoll /\ [][NextPoll]_vars

-----------------------------------------------------------------------------
(* The configuration: every combination of constructor arguments.         *)

NextConfig ==
    \/ \E i \in {<<"ok", 0>>, <<"ok", 1>>, <<"ENOENT", 0>>} : Start(i[1], i[2])
    \/ ServiceUrl
    \/ \E i \in {<<"URLError", 0>>, <<"ok", 0>>, <<"ok", 1>>} :
           Stop(i[1], i[2], "none")

SpecConfig == Init /\ [][NextConfig]_vars

-----------------------------------------------------------------------------
(* Two instances: the caller constructs a second Service, passing the     *)
(* list object it passed to the first.                                    *)

OtherLogPaths ==
    { [isNone |-> TRUE, str |-> ""],
      [isNone |-> FALSE, str |-> "/tmp/other.log"] }

\* Service.__init__ of the second instance, with service_args the caller's
\* list as it is by now, a non-zero port and log_path lp.
ConstructOther(lp) ==
    /\ ~other.constructed
    /\ ~given.service_args.isNone
    /\ LET sa == [isNone |-> FALSE, items |-> heap.caller]
           h == InitHeap(sa, lp)
       IN  /\ heap' = [heap EXCEPT !.caller = h.caller]
           /\ other' = [constructed |-> TRUE, service_args |-> InitArgsRef(sa),
                        fresh |-> h.fresh, log_path |-> lp]
    /\ op' = "other.__init__"
    /\ inp' = NoInput
    /\ result' = Return(PyNone)
    /\ events' = <<>>
    /\ UNCHANGED <<path, port, service_args, env, process, procs, given,
                   free_port_calls, lifecycle>>

\* The list the second instance's service_args refers to.
OtherArgs ==
    IF other.service_args = "caller" THEN heap.caller ELSE other.fresh

NextShared ==
    \/ \E lp \in OtherLogPaths : ConstructOther(lp)
    \/ \E i \in {<<"ok", 1>>, <<"ENOENT", 0>>} : Start(i[1], i[2])
    \/ ServiceUrl
    \/ Stop("ok", 1, "none")

SpecShared == Init /\ [][NextShared]_vars

-----------------------------------------------------------------------------
(* Properties.                                                             *)

\* self.process refers to a process.
Handle == process.kind = "Popen"

Probes == CountEv(events, "is_connectable")
Sleeps == CountEv(events, "sleep")

\* The process is killed and waited for, both its streams are closed.
Terminated(p) == ~p.alive /\ p.reaped /\ ~p.stdout_open /\ ~p.stderr_open

\* C1: stop on an instance on which no process was ever started returns
\* without error and does nothing (no shutdown request, no port check, no
\* kill).
C1_StopBeforeStartIsNoOp ==
    (op = "stop" /\ process.kind = "unset") =>
        (result.kind = "return" /\ events = <<>>)

\* C2: when a stop call made after a successful start has finished, by
\* returning or by raising, the subprocess is killed and waited for and
\* both its streams are closed, also when the /shutdown request errors.
\* (Stated for the calls in which no cleanup step raises.)
C2_StopAlwaysTerminates ==
    [][(lifecycle = "Running" /\ op' = "stop" /\ inp'.fault \in {"", "none"})
          => Terminated(procs'[process.pid])]_vars

\* C3: the process handle is present only while a start has succeeded and
\* no later stop has completed termination; in particular it is absent
\* again once a stop call has killed and waited for the process.
C3_HandleAbsentAfterStop ==
    (op = "stop" /\ result.kind = "return" /\ CountEv(events, "wait") = 1
        /\ inp.fault = "none")
        => ~Handle

\* C4: once a stop call following a successful start has returned without
\* error, every further stop call returns without error and has no effect.
C4_StopIdempotent ==
    [][(lifecycle = "Stopped" /\ Terminated(procs[process.pid])
            /\ op' = "stop")
          => (result'.kind = "return" /\ events' = <<>> /\ procs' = procs)]_vars

\* C5: if the spawn succeeds and no probe finds the port connectable, start
\* raises "Can not connect" after exactly 30 probes, having slept after
\* each of them; no start call makes more than 30 probes.
C5_UnreachableAfterThirtyProbes ==
    /\ op = "start" => Probes <= 30
    /\ (op = "start" /\ inp.spawn = "ok" /\ (inp.k = 0 \/ inp.k > 30)) =>
          /\ result = Raise("WebDriverException",
                            "Can not connect to the '" \o path.base \o "'")
          /\ Probes = 30
          /\ Sleeps = 30
          /\ \A i \in 1..Len(events) :
                events[i].ev = "is_connectable" =>
                    (i < Len(events) /\ events[i + 1].ev = "sleep")

C5_Witness ==
    /\ op = "start" /\ inp.spawn = "ok" /\ inp.k = 0
    /\ result.kind = "raise" /\ Probes = 30 /\ Sleeps = 30

\* C6: after a successful spawn, start returns without error exactly when
\* one of its probes succeeds; if probe k (1 <= k <= 30) is the first to
\* succeed, start returns after exactly k probes and k - 1 sleeps, the
\* successful probe being its last step.
C6_ReturnsAtFirstSuccess ==
    (op = "start" /\ inp.spawn = "ok") =>
        /\ result.kind = "return" <=> inp.k \in 1..30
        /\ inp.k \in 1..30 =>
              /\ result = Return(PyNone)
              /\ Probes = inp.k
              /\ Sleeps = inp.k - 1
              /\ events[Len(events)].ev = "is_connectable"

C6_Witness ==
    /\ op = "start" /\ inp.spawn = "ok" /\ inp.k = 30
    /\ result.kind = "return" /\ Probes = 30 /\ Sleeps = 29

ExecutableNotFound(base) ==
    Raise("WebDriverException",
          "'" \o base \o "' executable needs to be in PATH. Please see "
              \o "https://sites.google.com/a/chromium.org/chromedriver/home")

ExecutablePermissionDenied(base) ==
    Raise("WebDriverException",
          "'" \o base \o "' executable may have wrong permissions. Please see "
              \o "https://sites.google.com/a/chromium.org/chromedriver/home")

ServiceUnreachable(base) ==
    Raise("WebDriverException", "Can not connect to the '" \o base \o "'")

\* C7: a failed spawn is reported by cause: a missing executable as
\* ExecutableNotFound, a permission error as ExecutablePermissionDenied
\* (two errors unlike each other and unlike ServiceUnreachable), any other
\* failure as the OSError itself; no probe is made, no process is recorded.
C7_SpawnFailureClassified ==
    [][(op' = "start" /\ inp'.spawn # "ok") =>
          /\ inp'.spawn = "ENOENT" => result' = ExecutableNotFound(path.base)
          /\ inp'.spawn = "EACCES" =>
                result' = ExecutablePermissionDenied(path.base)
          /\ inp'.spawn \notin {"ENOENT", "EACCES"} =>
                result' = Raise("OSError", inp'.spawn)
          /\ result' # ServiceUnreachable(path.base)
          /\ ExecutableNotFound(path.base)
                # ExecutablePermissionDenied(path.base)
          /\ CountEv(events', "is_connectable") = 0
          /\ process' = process
          /\ procs' = procs]_vars

C7_Witness ==
    /\ op = "start" /\ inp.spawn = "EACCES"
    /\ result = ExecutablePermissionDenied("cd")
    /\ ~Handle

\* C8: the port is resolved at construction only: free_port is called once
\* when the port given is 0 and never otherwise, and no start, service_url
\* or stop call changes the port or calls free_port.
C8_PortFixed ==
    /\ [](/\ free_port_calls = (IF given.port = 0 THEN 1 ELSE 0)
          /\ given.port # 0 => port = given.port
          /\ given.port = 0 => port \in FreePorts)
    /\ [][port' = port /\ free_port_calls' = free_port_calls
            /\ CountEv(events', "free_port") = 0]_vars

C8_Witness ==
    /\ given.port = 0 /\ free_port_calls = 1 /\ port = 50007
    /\ op = "stop" /\ result.kind = "return" /\ Len(procs) = 2

\* C9: service_url returns "http://localhost:" followed by the port in
\* every lifecycle state, and changes nothing of the instance.
C9_ServiceUrlPure ==
    /\ [](op = "service_url" =>
            result = Return(CASE port = 9515 -> "http://localhost:9515"
                              [] port = 49152 -> "http://localhost:49152"
                              [] port = 50007 -> "http://localhost:50007"))
    /\ [][op' = "service_url" =>
            UNCHANGED <<path, port, service_args, heap, env, process, procs,
                        free_port_calls>>]_vars

C9_Witness ==
    /\ op = "service_url" /\ result = Return("http://localhost:49152")
    /\ Handle /\ Terminated(procs[process.pid])

\* C10: with a log path given, the extra arguments hold exactly one
\* --log-path=<path> entry from construction on, and every spawn's
\* argument vector carries it exactly once; with none given, none.
C10_LogFlagOnce ==
    LET n == IF TruthyStr(given.log_path) THEN 1 ELSE 0
    IN  /\ Count(ServiceArgs, "--log-path=/tmp/cd.log") = n
        /\ Count(ServiceArgs, "--log-path=") = 0
        /\ Len(ServiceArgs) = Len(given.service_args.items) + n
        /\ \A pid \in 1..Len(procs) :
              /\ Count(procs[pid].argv, "--log-path=/tmp/cd.log") = n
              /\ Len(procs[pid].argv) = 2 + Len(given.service_args.items) + n

C10_Witness ==
    /\ TruthyStr(given.log_path) /\ TruthyList(given.service_args)
    /\ Len(procs) = 2 /\ op = "start"
    /\ procs[2].argv = <<"/opt/bin/cd", "--port=9515", "--verbose",
                         "--log-path=/tmp/cd.log">>

\* C11: a /shutdown request that fails makes stop raise that very error:
\* it is neither swallowed nor turned into another kind of error.
C11_ShutdownFailurePropagates ==
    (op = "stop" /\ inp.shutdown \notin {"", "ok"}) =>
        /\ result.kind = "raise"
        /\ result.exc = inp.shutdown
        /\ result.exc \in {"URLError", "HTTPError"}

C11_Witness ==
    /\ op = "stop" /\ inp.shutdown = "HTTPError"
    /\ result.kind = "raise" /\ result.exc = "HTTPError"
    /\ lifecycle = "Running"

\* The names of the events from the i-th on.
NamesFrom(evs, i) == [j \in 1..(Len(evs) - i + 1) |-> evs[j + i - 1].ev]

\* The place of the last port check among the events (0 if there is none).
LastCheck ==
    LET at == {i \in 1..Len(events) : events[i].ev = "is_connectable"}
    IN  IF at = {} THEN 0 ELSE CHOOSE i \in at : \A j \in at : j <= i

\* C12 as stated: stop's poll makes at most 30 connectability checks.
C12_AtMostThirtyChecks ==
    op = "stop" => Probes <= 30

\* C12 as amended: stop's poll ends at the first check that finds the port
\* not connectable or after 31 checks (30 sleeps), whichever comes first,
\* with one sleep between two checks; a port still connectable then does
\* not make stop fail, the cleanup follows.
C12_PollEndsDarkOrAfterThirtyOne ==
    (op = "stop" /\ inp.shutdown = "ok") =>
        /\ Probes = (IF inp.d \in 1..31 THEN inp.d ELSE 31)
        /\ Sleeps = Probes - 1
        /\ events[1].ev = "urlopen" /\ events[2].ev = "is_connectable"
        /\ \A i \in 3..LastCheck :
              (events[i].ev = "is_connectable") <=> (events[i - 1].ev = "sleep")
        /\ result = Return(PyNone)
        /\ CountEv(events, "kill") = 1
        /\ LastCheck < Len(events)

C12_Witness ==
    /\ op = "stop" /\ inp.shutdown = "ok" /\ inp.d = 0
    /\ Probes = 31 /\ Sleeps = 30 /\ result.kind = "return"
    /\ Terminated(procs[process.pid])

C14_OnlyKillFailureSwallowed ==
    (op = "stop" /\ inp.fault \in {"close_stdout", "close_stderr", "wait"})
        => result.kind = "raise"

\* C15: when start raises "Can not connect", it has made no kill, no wait
\* and no stream close: the process it spawned is alive with both streams
\* open, and self.process refers to it.
C15_FailedStartLeavesProcess ==
    (op = "start" /\ result = ServiceUnreachable(path.base)) =>
        /\ Handle /\ process.pid = Len(procs)
        /\ procs[process.pid].alive /\ ~procs[process.pid].reaped
        /\ procs[process.pid].stdout_open /\ procs[process.pid].stderr_open
        /\ \A i \in 1..Len(events) :
              events[i].ev \in {"Popen", "is_connectable", "sleep"}

C15_Witness ==
    /\ op = "start" /\ result = ServiceUnreachable("cd")
    /\ lifecycle = "StartFailed" /\ Handle /\ procs[process.pid].alive

\* C16: the subprocess gets the environment mapping given at construction
\* whenever one was given, the empty mapping included, and the current
\* process environment only when none was given.
C16_SuppliedEnvironmentUsed ==
    \A pid \in 1..Len(procs) :
        procs[pid].env = (IF given.env.isNone THEN {<<"PATH", "/usr/bin">>}
                                              ELSE given.env.vars)

\* C17: the shutdown request of stop goes to the value of service_url
\* followed by "/shutdown".
C17_ShutdownUrlIsServiceUrl ==
    (op = "stop" /\ events # <<>>) =>
        /\ events[1].ev = "urlopen"
        /\ events[1].arg = ServiceUrlValue(port) \o "/shutdown"

\* C18: a stop call made after a start that failed with "Can not connect"
\* ends with the leaked process killed and waited for and its streams
\* closed, whatever the environment does (stated for the calls in which no
\* cleanup step raises).
C18_LeakedProcessReclaimed ==
    [][(op = "start" /\ result = ServiceUnreachable(path.base)
            /\ op' = "stop" /\ inp'.fault \in {"", "none"})
          => Terminated(procs'[process.pid])]_vars

\* Number of --log-path entries in args.
LogEntries(args) ==
    Count(args, "--log-path=/tmp/cd.log")
        + Count(args, "--log-path=/tmp/other.log")

\* C19: construction leaves the caller's list as it was: of two instances
\* constructed from the same list, each with a log path, each has exactly
\* one --log-path entry, its own.
C19_CallerListUntouched ==
    (other.constructed /\ TruthyStr(given.log_path)
        /\ TruthyStr(other.log_path)) =>
        /\ heap.caller = given.service_args.items
        /\ LogEntries(ServiceArgs) = 1
        /\ Count(ServiceArgs, "--log-path=/tmp/cd.log") = 1
        /\ LogEntries(OtherArgs) = 1
        /\ Count(OtherArgs, "--log-path=/tmp/other.log") = 1

\* C20: at any time at most one subprocess spawned by the instance is
\* alive, and an alive one is the process self.process refers to.
C20_AliveProcessIsHandle ==
    \A pid \in 1..Len(procs) :
        procs[pid].alive => (Handle /\ process.pid = pid)

====
